---- MODULE Spec2Model ----
(***************************************************************************)
(* Model of bartoszrud/ml4h_proj2:                                         *)
(*   src/code/models/bert_tree.py  BERTTree and its module-level script    *)
(*   src/code/models/bert.py       BERT and its command-line script        *)
(*                                                                         *)
(* Spec    : one BERTTree object; every public method is an action that    *)
(*           runs the whole method body.  The object's inputs (the params  *)
(*           handed to the constructor, the tokenized dataset attached to  *)
(*           it, the content of the data directory, the default of the     *)
(*           datasets library's shard()) are drawn in Init.                *)
(* SpecCli : one run of the bert.py script, one action per statement of    *)
(*           the script.                                                   *)
(***************************************************************************)
EXTENDS Integers, Sequences, FiniteSets, TLC

VARIABLES
    params,             \* BERTTree.params, the constructor's argument
    tokenized_dataset,  \* BERTTree.tokenized_dataset (Unset until assigned)
    contiguous,         \* default of datasets.Dataset.shard(contiguous=...)
    data_dir,           \* the directory 'data': file name -> content
    clf_state,          \* per classifier of params['classifiers']: what it was fitted on
    results,            \* run identifiers the Evaluator has written results for
    generated,          \* per split: the pair generate_features last computed and
                        \* went on to store (<<>>: none, or its dump failed)
    last,               \* outcome of the last method call on the object
    corpus,             \* the Dataset Provider's splits of (text, label) examples
    cli                 \* state of the bert.py script run

vars == <<params, tokenized_dataset, contiguous, data_dir, clf_state, results,
          generated, last, corpus, cli>>

treeVars == <<params, tokenized_dataset, contiguous, data_dir, clf_state, results,
              generated, last, corpus>>

----------------------------------------------------------------------------
(* Bounds of the model *)

MaxExamples == 12
MaxClassifiers == 2

(* Program constants *)

SHARDS == 10
BatchSize == 32

(* Size of the encoder's per-example output in the model: SeqLen positions  *)
(* of HiddenDim numbers each.                                               *)
SeqLen == 2
HiddenDim == 2

----------------------------------------------------------------------------
(* Small helpers *)

Min(a, b) == IF a < b THEN a ELSE b

Last(s) == s[Len(s)]

RECURSIVE Concatenate(_)
\* np.concatenate of a list of 2-D arrays along axis 0
Concatenate(Xs) ==
    IF Xs = <<>> THEN <<>> ELSE Head(Xs) \o Concatenate(Tail(Xs))

Splits == {"train", "test"}

Unset == <<>>

NoError == [type |-> "none", detail |-> ""]

Raise(t, d) == [type |-> t, detail |-> d]

----------------------------------------------------------------------------
(* bert_tree.py, module level *)

\* A model identifier 'org/name' is kept as its '/'-separated components.
BioClinicalBERT == <<"emilyalsentzer", "Bio_ClinicalBERT">>

OtherBERT == <<"google", "bert_uncased">>

bert_params ==
    [model |-> BioClinicalBERT,
     learning_rate |-> "0.0003",
     batch_size |-> 1,
     epochs |-> 4,
     dataset |-> "small",
     freeze_base_layer |-> TRUE,
     load_checkpoint |-> FALSE,
     save_checkpoints |-> FALSE,
     load_cached_dataset |-> TRUE,
     save_results |-> TRUE]

\* Names the module bert_tree binds by its import statements and its class
\* statement (lines 1-8 and 24).
ImportedNames ==
    {"AutoTokenizer", "AutoConfig", "TFAutoModel", "DataCollatorWithPadding",
     "ExtraTreesClassifier", "RandomForestClassifier",
     "GradientBoostingClassifier", "np", "pickle", "BERT", "evaluate",
     "set_seeds", "BERTTree"}

\* The module's global namespace: name -> value.
ModuleGlobals ==
    [n \in ImportedNames |-> <<"object", n>>] @@ ("bert_params" :> bert_params)

BuiltinNames == {"open", "print", "range", "str"}

\* Python's name lookup inside a method: locals, then module globals, then
\* builtins; anything else raises NameError.
NameDefined(name, locals) ==
    name \in locals \cup DOMAIN ModuleGlobals \cup BuiltinNames

\* str.split('/')[-1]
SplitLast(model) == Last(model)

----------------------------------------------------------------------------
(* bert.py: BERT.__init__ *)

\* The keys BERT.__init__ reads from params, in the order it reads them.
BertInitKeys ==
    <<"model_id", "dataset_id", "batch_size", "learning_rate", "freeze_bert",
      "freeze_bert_encoder", "load_checkpoint_from", "save_checkpoints",
      "epochs", "save_results">>

RECURSIVE FirstMissing(_, _)
FirstMissing(keys, p) ==
    IF keys = <<>> THEN ""
    ELSE IF Head(keys) \notin DOMAIN p THEN Head(keys)
    ELSE FirstMissing(Tail(keys), p)

\* Python truthiness of an optional string (None is kept as "None" here,
\* the empty string as "").
Truthy(v) == v # "None" /\ v # ""

\* BERT(params): the error raised, or the fields of the object built.
\* libFails: a call into transformers / the file system fails.
BertInit(p, libFails) ==
    LET missing == FirstMissing(BertInitKeys, p) IN
    IF missing # "" THEN [error |-> Raise("KeyError", missing)]
    ELSE IF libFails THEN [error |-> Raise("LibraryError", "BERT.__init__")]
    ELSE [error |-> NoError,
          model_id |-> p["model_id"],
          dataset_id |-> p["dataset_id"],
          load_checkpoint_from |-> p["load_checkpoint_from"],
          save_checkpoints |-> p["save_checkpoints"],
          save_results |-> p["save_results"],
          weights |-> IF Truthy(p["load_checkpoint_from"])
                      THEN p["load_checkpoint_from"]
                      ELSE "pretrained"]

----------------------------------------------------------------------------
(* The Evaluator (evaluation.evaluate, not among the sources) *)

\* Results are written under the run identifier only when save_results is set.
EvaluatorWrite(written, id, save_results) ==
    IF save_results THEN written \cup {id} ELSE written

----------------------------------------------------------------------------
(* The collaborators of compute_features *)

\* datasets.Dataset.shard(num_shards, index, contiguous): index is 0-based.
\* contiguous=False keeps the rows index, index+num_shards, ...;
\* contiguous=True keeps one block, the first len % num_shards blocks one
\* row longer.
Shard(ds, num_shards, index, contig) ==
    LET n == Len(ds) IN
    IF contig
    THEN LET div == n \div num_shards
             mod == n % num_shards
             start == div * index + Min(index, mod)
             end == start + div + (IF index < mod THEN 1 ELSE 0)
         IN SubSeq(ds, start + 1, end)
    ELSE LET cnt == IF index < n THEN (n - 1 - index) \div num_shards + 1 ELSE 0
         IN [j \in 1..cnt |-> ds[index + (j - 1) * num_shards + 1]]

RECURSIVE Batches(_, _)
\* to_tf_dataset(shuffle=False, batch_size=...): the rows in order, cut into
\* batches, the last one possibly shorter.
Batches(rows, size) ==
    IF rows = <<>> THEN <<>>
    ELSE <<SubSeq(rows, 1, Min(size, Len(rows)))>>
         \o Batches(SubSeq(rows, size + 1, Len(rows)), size)

ModelSeed(model) == IF model = BioClinicalBERT THEN 1 ELSE 2

\* The encoder's last_hidden_state of one example: SeqLen x HiddenDim numbers
\* that depend on the encoder and on the example's tokens.
Hidden(model, example) ==
    [p \in 1..SeqLen |->
        [h \in 1..HiddenDim |->
            ModelSeed(model) * 100000 + example.input_ids[2] * 100 + p * 10 + h]]

\* The encoder's pooled output of one example.
Pooled(model, example) ==
    [h \in 1..HiddenDim |-> ModelSeed(model) * 100000 + example.input_ids[2] * 100 + h]

RECURSIVE PredictBatches(_, _)
PredictBatches(model, batches) ==
    IF batches = <<>> THEN <<>>
    ELSE [j \in 1..Len(Head(batches)) |-> Hidden(model, Head(batches)[j])]
         \o PredictBatches(model, Tail(batches))

\* TFAutoModel.predict(tf_dataset): <<last_hidden_state, pooler_output>>, one
\* entry per example, batch after batch.
Predict(model, batches) ==
    LET rows == Concatenate(batches) IN
    <<PredictBatches(model, batches),
      [j \in 1..Len(rows) |-> Pooled(model, rows[j])]>>

\* ndarray.reshape(shape[0], -1): every example's output flattened in
\* row-major order.
Reshape(out) ==
    [j \in 1..Len(out) |-> Concatenate(out[j])]

----------------------------------------------------------------------------
(* BERTTree.compute_features *)

RECURSIVE ShardLoop(_, _, _, _, _, _)
\* The loop of lines 72-87 from shard i on, Xs being the list built so far.
\* failAt is the shard whose self.model.predict raises (SHARDS: none does).
ShardLoop(i, Xs, ds, model, contig, failAt) ==
    IF i = SHARDS THEN [error |-> NoError, Xs |-> Xs, shards_done |-> i]
    ELSE IF failAt = i
    THEN [error |-> Raise("EncoderError", ToString(i)), Xs |-> Xs, shards_done |-> i]
    ELSE LET dataset_shard == Shard(ds, SHARDS, i, contig)
             tf_shard == Batches(dataset_shard, BatchSize)
             bert_output == Predict(model, tf_shard)[1]
             X == Reshape(bert_output)
         IN ShardLoop(i + 1, Append(Xs, X), ds, model, contig, failAt)

\* A slip in compute_features: the encoder's error is swallowed and what the
\* loop has built so far is returned.
ReturnFeaturesPartial(loop, split) ==
    LET X == Concatenate(loop.Xs)
        y == [j \in 1..Len(split) |-> split[j].label]
    IN [error |-> NoError, ret |-> <<X, y>>, shards_done |-> loop.shards_done]

\* Lines 89-92 after the loop ended as `loop`: an error of the loop
\* propagates, otherwise the pair (X, y) is returned.
ReturnFeatures(loop, split) ==
    IF loop.error # NoError
    THEN [error |-> loop.error, ret |-> <<>>, shards_done |-> loop.shards_done]
    ELSE LET X == Concatenate(loop.Xs)
             y == [j \in 1..Len(split) |-> split[j].label]
         IN [error |-> NoError, ret |-> <<X, y>>, shards_done |-> loop.shards_done]

\* compute_features(dataset) on an object whose tokenized_dataset is td and
\* whose encoder is model: the error raised, or the pair returned.
ComputeFeatures(td, model, dataset, contig, failAt) ==
    IF td = Unset
    THEN [error |-> Raise("AttributeError", "tokenized_dataset"),
          ret |-> <<>>, shards_done |-> 0]
    ELSE CHOOSE r \in {ReturnFeatures(loop, td[dataset]) :
                          loop \in {ShardLoop(0, <<>>, td[dataset], model,
                                              contig, failAt)}} : TRUE

----------------------------------------------------------------------------
(* BERTTree.load_data *)

\* self.tokenizer(sample['text'], truncation=True, padding='max_length',
\* max_length=100) mapped over a split: every example keeps its place and its
\* label and gains its token ids ([CLS] text [SEP]).
Tokenize(split) ==
    [j \in 1..Len(split) |->
        [text |-> split[j].text, label |-> split[j].label,
         input_ids |-> <<101, split[j].text, 102>>]]

TokenizeAll(dataset) == [s \in DOMAIN dataset |-> Tokenize(dataset[s])]

NoCall ==
    [op |-> "none", arg |-> "", error |-> NoError, ret |-> <<>>,
     compute_calls |-> <<>>, shards_done |-> 0, identifier |-> "",
     source |-> "none", pair |-> <<>>, fit_calls |-> <<>>,
     eval_calls |-> <<>>]

\* load_data(): BERT(bert_params) is built first; only when that returns are
\* the data loaded and tokenized.
LoadData ==
    LET bert == BertInit(bert_params, FALSE) IN
    /\ last' = [NoCall EXCEPT !.op = "load_data", !.error = bert.error]
    /\ tokenized_dataset' =
           IF bert.error # NoError THEN tokenized_dataset
           ELSE TokenizeAll(corpus)
    /\ UNCHANGED <<params, contiguous, data_dir, clf_state, results, generated,
                   corpus, cli>>

----------------------------------------------------------------------------
(* BERTTree.generate_features *)

Pickled(obj) == <<"pickle", obj>>

Truncated == <<"truncated">>

\* The two with-blocks of lines 100-104.  open(..., 'wb') creates or empties
\* the file before pickle.dump fills it; ioFailAt = 1 (2) is a dump of X (y)
\* that fails, 0 is none failing.
WriteFiles(dir, identifier, X, y, ioFailAt) ==
    LET xname == "X_feat_" \o identifier \o ".pkl"
        yname == "y_" \o identifier \o ".pkl"
        keep(names) == [f \in (DOMAIN dir) \ names |-> dir[f]]
    IN  IF ioFailAt = 1
        THEN [error |-> Raise("OSError", xname),
              dir |-> keep({xname}) @@ (xname :> Truncated)]
        ELSE IF ioFailAt = 2
        THEN [error |-> Raise("OSError", yname),
              dir |-> keep({xname, yname}) @@ (xname :> Pickled(X))
                                           @@ (yname :> Truncated)]
        ELSE [error |-> NoError,
              dir |-> keep({xname, yname}) @@ (xname :> Pickled(X))
                                           @@ (yname :> Pickled(y))]

GenerateFeatures(dataset, failAt) ==
    \E cf \in {ComputeFeatures(tokenized_dataset, params["model"], dataset,
                                contiguous, failAt)} :
    LET call == [NoCall EXCEPT !.op = "generate_features", !.arg = dataset,
                               !.compute_calls = <<dataset>>,
                               !.shards_done = cf.shards_done,
                               !.ret = cf.ret]
    IN
    IF cf.error # NoError
    THEN /\ last' = [call EXCEPT !.error = cf.error]
         /\ UNCHANGED <<params, tokenized_dataset, contiguous, data_dir,
                        clf_state, results, generated, corpus, cli>>
    ELSE LET X == cf.ret[1]
             y == cf.ret[2]
             model_name == SplitLast(bert_params.model)
             identifier == dataset \o "_" \o bert_params.dataset \o "_" \o model_name
         IN
         /\ IF ~NameDefined("os", {"self", "dataset", "X", "y", "model_name",
                                    "identifier"})
            THEN /\ last' = [call EXCEPT !.identifier = identifier,
                                         !.error = Raise("NameError", "os")]
                 /\ data_dir' = data_dir
                 /\ generated' = [generated EXCEPT ![dataset] = <<X, y>>]
            ELSE \E w \in {WriteFiles(data_dir, identifier, X, y, ioFailAt) :
                            ioFailAt \in 0..2} :
                 /\ last' = [call EXCEPT !.identifier = identifier,
                                         !.error = w.error]
                 /\ data_dir' = w.dir
                 /\ generated' =
                        [generated EXCEPT ![dataset] =
                            IF w.error # NoError THEN <<>> ELSE <<X, y>>]
         /\ UNCHANGED <<params, tokenized_dataset, contiguous, clf_state,
                        results, corpus, cli>>

----------------------------------------------------------------------------
(* BERTTree.train *)

RECURSIVE FitLoop(_, _, _, _, _, _)
\* The loop of lines 119-121 from classifier i on: clf.fit(X_train, y_train)
\* for each classifier in list order; fitFailAt is the classifier whose fit
\* raises (0: none does).
FitLoop(i, classifiers, state, calls, pair, fitFailAt) ==
    IF i > Len(classifiers)
    THEN [error |-> NoError, clf_state |-> state, fit_calls |-> calls]
    ELSE IF fitFailAt = i
    THEN [error |-> Raise("FitError", classifiers[i]), clf_state |-> state,
          fit_calls |-> Append(calls, classifiers[i])]
    ELSE FitLoop(i + 1, classifiers, [state EXCEPT ![i] = pair],
                 Append(calls, classifiers[i]), pair, fitFailAt)

\* Lines 108-117: the pair train() fits on, read from the cache when the
\* feature file is listed in 'data', computed otherwise.
TrainPair(model_name, failAt) ==
    LET identifier == bert_params.dataset \o "_" \o model_name
        xname == "X_feat_train_" \o identifier \o ".pkl"
        yname == "y_train_" \o identifier \o ".pkl"
    IN  IF xname \in DOMAIN data_dir
        THEN IF data_dir[xname] = Truncated
             THEN [error |-> Raise("EOFError", xname), pair |-> <<>>,
                   source |-> "cache", compute_calls |-> <<>>, shards_done |-> 0]
             ELSE IF yname \notin DOMAIN data_dir
             THEN [error |-> Raise("FileNotFoundError", yname), pair |-> <<>>,
                   source |-> "cache", compute_calls |-> <<>>, shards_done |-> 0]
             ELSE IF data_dir[yname] = Truncated
             THEN [error |-> Raise("EOFError", yname), pair |-> <<>>,
                   source |-> "cache", compute_calls |-> <<>>, shards_done |-> 0]
             ELSE [error |-> NoError,
                   pair |-> <<data_dir[xname][2], data_dir[yname][2]>>,
                   source |-> "cache", compute_calls |-> <<>>, shards_done |-> 0]
        ELSE CHOOSE r \in
                 {[error |-> cf.error, pair |-> cf.ret, source |-> "computed",
                   compute_calls |-> <<"train">>, shards_done |-> cf.shards_done] :
                  cf \in {ComputeFeatures(tokenized_dataset, params["model"],
                                          "train", contiguous, failAt)}} : TRUE

Train(failAt) ==
    IF ~NameDefined("model_name", {"self"})
    THEN /\ last' = [NoCall EXCEPT !.op = "train",
                                   !.error = Raise("NameError", "model_name")]
         /\ UNCHANGED <<params, tokenized_dataset, contiguous, data_dir,
                        clf_state, results, generated, corpus, cli>>
    ELSE \E tp \in {TrainPair(ModuleGlobals["model_name"], failAt)} :
         LET call == [NoCall EXCEPT !.op = "train", !.source = tp.source,
                                    !.pair = tp.pair,
                                    !.compute_calls = tp.compute_calls,
                                    !.shards_done = tp.shards_done]
         IN
         IF tp.error # NoError
         THEN /\ last' = [call EXCEPT !.error = tp.error]
              /\ UNCHANGED <<params, tokenized_dataset, contiguous, data_dir,
                             clf_state, results, generated, corpus, cli>>
         ELSE \E fit \in {FitLoop(1, params["classifiers"], clf_state, <<>>,
                                   tp.pair, fitFailAt) :
                              fitFailAt \in 0..Len(params["classifiers"])} :
              /\ last' = [call EXCEPT !.error = fit.error,
                                      !.fit_calls = fit.fit_calls]
              /\ clf_state' = fit.clf_state
              /\ UNCHANGED <<params, tokenized_dataset, contiguous, data_dir,
                             results, generated, corpus, cli>>

----------------------------------------------------------------------------
(* BERTTree.evaluate *)

RECURSIVE EvalLoop(_, _, _, _, _)
\* The loop of lines 125-127 from classifier i on: predict_proba, then the
\* Evaluator called with the classifier's name and save_results=True.
\* predFailAt is the classifier whose predict_proba raises (0: none does);
\* a classifier that was never fitted raises NotFittedError.
EvalLoop(i, classifiers, written, calls, predFailAt) ==
    IF i > Len(classifiers)
    THEN [error |-> NoError, results |-> written, eval_calls |-> calls]
    ELSE IF clf_state[i] = <<>>
    THEN [error |-> Raise("NotFittedError", classifiers[i]),
          results |-> written, eval_calls |-> calls]
    ELSE IF predFailAt = i
    THEN [error |-> Raise("PredictError", classifiers[i]),
          results |-> written, eval_calls |-> calls]
    ELSE EvalLoop(i + 1, classifiers,
                  EvaluatorWrite(written, classifiers[i], TRUE),
                  Append(calls, [id |-> classifiers[i], save_results |-> TRUE]),
                  predFailAt)

Evaluate(failAt) ==
    \E cf \in {ComputeFeatures(tokenized_dataset, params["model"], "test",
                                contiguous, failAt)} :
    LET call == [NoCall EXCEPT !.op = "evaluate", !.source = "computed",
                               !.compute_calls = <<"test">>,
                               !.shards_done = cf.shards_done,
                               !.ret = cf.ret, !.pair = cf.ret]
    IN
    IF cf.error # NoError
    THEN /\ last' = [call EXCEPT !.error = cf.error]
         /\ UNCHANGED <<params, tokenized_dataset, contiguous, data_dir,
                        clf_state, results, generated, corpus, cli>>
    ELSE \E ev \in {EvalLoop(1, params["classifiers"], results, <<>>, predFailAt) :
                        predFailAt \in 0..Len(params["classifiers"])} :
         /\ last' = [call EXCEPT !.error = ev.error,
                                 !.eval_calls = ev.eval_calls]
         /\ results' = ev.results
         /\ UNCHANGED <<params, tokenized_dataset, contiguous, data_dir,
                        clf_state, generated, corpus, cli>>

----------------------------------------------------------------------------
(* The inputs of a BERTTree object *)

NumLabels == 5

\* A corpus of MaxExamples distinct examples, the first n of them the train
\* split and the rest the test split.
Corpus(n) ==
    [train |-> [j \in 1..n |-> [text |-> j, label |-> j % NumLabels]],
     test |-> [j \in 1..(MaxExamples - n) |->
                  [text |-> n + j, label |-> (n + j) % NumLabels]]]

ClfName(i) == "Classifier" \o ToString(i)

\* The params a caller may hand to BERTTree(...): the encoder, the list of
\* classifiers, and possibly a save_results flag of its own.
ParamsSet ==
    LET base == {[model |-> m, classifiers |-> [i \in 1..c |-> ClfName(i)]] :
                    m \in {BioClinicalBERT, OtherBERT}, c \in 0..MaxClassifiers}
    IN  base \cup {b @@ ("save_results" :> FALSE) : b \in base}

\* Where the corpus is cut: splits with no example, with fewer examples than
\* shards, with as many, and with more.
Cuts == {0, SHARDS - 1, SHARDS, SHARDS + 1, MaxExamples}

\* The shard whose encoder call fails: the first, a middle one, the last, or
\* none (SHARDS).
FailAt == {0, SHARDS \div 2, SHARDS - 1, SHARDS}

\* A pair left in the cache by an earlier run.
StaleX == <<<<7, 7, 7, 7>>>>

StaleY == <<1>>

CacheEntry(split) ==
    IF split = "train"
    THEN ("X_feat_train_small_Bio_ClinicalBERT.pkl" :> Pickled(StaleX))
         @@ ("y_train_small_Bio_ClinicalBERT.pkl" :> Pickled(StaleY))
    ELSE ("X_feat_test_small_Bio_ClinicalBERT.pkl" :> Pickled(StaleX))
         @@ ("y_test_small_Bio_ClinicalBERT.pkl" :> Pickled(StaleY))

EmptyDir == [f \in {} |-> <<>>]

InitialDirs == {EmptyDir, CacheEntry("train") @@ CacheEntry("test")}

----------------------------------------------------------------------------
(* bert.py: BERT.load_data, BERT.train, BERT.evaluate *)

\* The identifier BERT.__init__ gives the run (lines 54-56).
RunId(bert, timestamp) ==
    SplitLast(bert.model_id) \o "_" \o bert.dataset_id \o "_" \o timestamp

\* train(): the callbacks handed to model.fit (lines 99-100).
FitCallbacks(bert) ==
    IF bert.save_checkpoints THEN <<"checkpoint", "early_stopping">>
    ELSE <<"early_stopping">>

\* evaluate(): the call of the Evaluator (line 107).
BertEvaluateCall(bert, timestamp) ==
    [id |-> RunId(bert, timestamp), save_results |-> bert.save_results]

----------------------------------------------------------------------------
(* bert.py: the command-line script (lines 110-142) *)

\* A job file: the params BERT.__init__ reads.  Model identifiers are kept as
\* their '/'-separated components, JSON null as "None".
JobFile(checkpoint, save) ==
    [model_id |-> BioClinicalBERT, dataset_id |-> "small", batch_size |-> 1,
     learning_rate |-> "0.0003", freeze_bert |-> TRUE,
     freeze_bert_encoder |-> FALSE, load_checkpoint_from |-> checkpoint,
     save_checkpoints |-> FALSE, epochs |-> 4, save_results |-> save]

Without(p, key) == [k \in (DOMAIN p) \ {key} |-> p[k]]

JobFiles ==
    LET full == {JobFile(c, s) : c \in {"None", "ckpt_A"}, s \in BOOLEAN}
    IN  full \cup {Without(JobFile("None", TRUE), "load_checkpoint_from")}

\* What argparse hands over: an option not given is None ("None" here), an
\* option given with an empty value is "".
ArgsSet ==
    [checkpoint : {"None", "", "ckpt_B"}, dataset : {"None", "", "large"},
     skip_training : BOOLEAN]

\* A slip in lines 131-132: the checkpoint is assigned whether given or not.
ApplyOverridesUnguarded(p, args) ==
    LET q == ("load_checkpoint_from" :> args.checkpoint) @@ p
    IN  IF Truthy(args.dataset) THEN ("dataset_id" :> args.dataset) @@ q
        ELSE q

\* Lines 131-134.
ApplyOverrides(p, args) ==
    LET q == IF Truthy(args.checkpoint)
             THEN ("load_checkpoint_from" :> args.checkpoint) @@ p
             ELSE p
    IN  IF Truthy(args.dataset) THEN ("dataset_id" :> args.dataset) @@ q
        ELSE q

NoBert == [error |-> NoError]

CliIdle ==
    [pc |-> "idle", args |-> [checkpoint |-> "None", dataset |-> "None",
                              skip_training |-> FALSE],
     file |-> <<>>, params |-> <<>>, constructed_with |-> <<>>,
     bert |-> NoBert, steps |-> <<>>, error |-> NoError,
     fit_callbacks |-> <<>>, eval_calls |-> <<>>, written |-> {}]

CliFail(step, err) ==
    [cli EXCEPT !.pc = "failed", !.steps = Append(@, step), !.error = err]

\* Lines 128-129: the job file is opened and parsed; fileFails: it cannot be.
CliLoadConfig(fileFails) ==
    /\ cli.pc = "start"
    /\ cli' = IF fileFails
              THEN CliFail("load_config", Raise("OSError", "params"))
              ELSE [cli EXCEPT !.pc = "loaded", !.params = cli.file,
                               !.steps = Append(@, "load_config")]
    /\ UNCHANGED treeVars

CliApplyOverrides ==
    /\ cli.pc = "loaded"
    /\ cli' = [cli EXCEPT !.pc = "overridden",
                          !.params = ApplyOverrides(cli.params, cli.args),
                          !.steps = Append(@, "apply_overrides")]
    /\ UNCHANGED treeVars

\* Line 136.
CliConstruct(libFails) ==
    /\ cli.pc = "overridden"
    /\ \E bert \in {BertInit(cli.params, libFails)} :
          cli' = IF bert.error # NoError
                 THEN [CliFail("construct", bert.error)
                          EXCEPT !.constructed_with = cli.params]
                 ELSE [cli EXCEPT !.pc = "constructed", !.bert = bert,
                                  !.constructed_with = cli.params,
                                  !.steps = Append(@, "construct")]
    /\ UNCHANGED treeVars

\* Line 137.
CliLoadData(libFails) ==
    /\ cli.pc = "constructed"
    /\ cli' = IF libFails
              THEN CliFail("load_data", Raise("LibraryError", "load_data"))
              ELSE [cli EXCEPT !.pc = "data_loaded",
                               !.steps = Append(@, "load_data")]
    /\ UNCHANGED treeVars

\* Lines 139-140.
CliTrain(libFails) ==
    /\ cli.pc = "data_loaded"
    /\ cli' = IF cli.args.skip_training
              THEN [cli EXCEPT !.pc = "trained"]
              ELSE IF libFails
              THEN [CliFail("train", Raise("LibraryError", "fit"))
                       EXCEPT !.fit_callbacks = FitCallbacks(cli.bert)]
              ELSE [cli EXCEPT !.pc = "trained",
                               !.fit_callbacks = FitCallbacks(cli.bert),
                               !.steps = Append(@, "train")]
    /\ UNCHANGED treeVars

\* Line 142.
CliEvaluate(libFails, timestamp) ==
    /\ cli.pc = "trained"
    /\ cli' = IF libFails
              THEN CliFail("evaluate", Raise("LibraryError", "predict"))
              ELSE LET call == BertEvaluateCall(cli.bert, timestamp) IN
                   [cli EXCEPT !.pc = "done",
                               !.eval_calls = Append(@, call),
                               !.written = EvaluatorWrite(@, call.id,
                                                          call.save_results),
                               !.steps = Append(@, "evaluate")]
    /\ UNCHANGED treeVars

Timestamps == {"2022-04-01T10:00:00.000000Z", "2022-04-01T10:00:01.000000Z"}

Init ==
    /\ corpus \in {Corpus(n) : n \in Cuts}
    /\ tokenized_dataset \in {Unset, TokenizeAll(corpus)}
    /\ contiguous \in BOOLEAN
    /\ params \in ParamsSet
    /\ clf_state \in {[i \in 1..Len(params["classifiers"]) |-> <<>>],
                       [i \in 1..Len(params["classifiers"]) |-> <<StaleX, StaleY>>]}
    /\ data_dir \in InitialDirs
    /\ results = {}
    /\ generated = [s \in Splits |-> <<>>]
    /\ last = NoCall
    /\ cli = CliIdle

Next ==
    \/ LoadData
    \/ \E dataset \in Splits, failAt \in FailAt : GenerateFeatures(dataset, failAt)
    \/ \E failAt \in FailAt : Train(failAt)
    \/ \E failAt \in FailAt : Evaluate(failAt)

Spec == Init /\ [][Next]_vars

\* One run of the bert.py script; no BERTTree is involved.
InitCli ==
    /\ corpus = [s \in Splits |-> <<>>]
    /\ tokenized_dataset = Unset
    /\ contiguous = FALSE
    /\ params = [model |-> BioClinicalBERT, classifiers |-> <<>>]
    /\ clf_state = <<>>
    /\ data_dir = EmptyDir
    /\ results = {}
    /\ generated = [s \in Splits |-> <<>>]
    /\ last = NoCall
    /\ cli \in {[CliIdle EXCEPT !.pc = "start", !.args = a, !.file = f] :
                    a \in ArgsSet, f \in JobFiles}

NextCli ==
    \/ \E fileFails \in BOOLEAN : CliLoadConfig(fileFails)
    \/ CliApplyOverrides
    \/ \E libFails \in BOOLEAN : CliConstruct(libFails)
    \/ \E libFails \in BOOLEAN : CliLoadData(libFails)
    \/ \E libFails \in BOOLEAN : CliTrain(libFails)
    \/ \E libFails \in BOOLEAN, timestamp \in Timestamps :
          CliEvaluate(libFails, timestamp)

SpecCli == InitCli /\ [][NextCli]_vars

----------------------------------------------------------------------------
(* Properties of a BERTTree object, checked under Spec *)

Range(seq) == {seq[i] : i \in DOMAIN seq}

\* The row compute_features is to hold for one example: the encoder's output
\* for its tokens, flattened.
Embedding(model, example) == Concatenate(Hidden(model, example))

\* The split the last call handed to compute_features.
LastSplit == tokenized_dataset[last.compute_calls[1]]

\* The feature file and the label file the cache keeps for a split of the
\* dataset 'small' encoded by Bio_ClinicalBERT.
FeatureFile(split) == "X_feat_" \o split \o "_small_Bio_ClinicalBERT.pkl"

LabelFile(split) == "y_" \o split \o "_small_Bio_ClinicalBERT.pkl"

CacheHolds(split) ==
    /\ FeatureFile(split) \in DOMAIN data_dir
    /\ LabelFile(split) \in DOMAIN data_dir

\* C1: whenever compute_features has returned (X, y) for a split of N
\* examples, X has N rows, y has N entries, and for every i row i of X is the
\* embedding of the example whose label is y[i], i.e. of example i of the
\* split.
C1_RowsMatchLabels ==
    last.ret # <<>> =>
        LET X == last.ret[1]
            y == last.ret[2]
        IN  /\ Len(X) = Len(LastSplit)
            /\ Len(y) = Len(LastSplit)
            /\ \A i \in 1..Len(LastSplit) :
                  /\ X[i] = Embedding(params["model"], LastSplit[i])
                  /\ y[i] = LastSplit[i].label

\* C2: whenever train() (key: train) or evaluate() (key: test) has run on a
\* cache that holds the entry of its key, the pair came from the cache and
\* compute_features was not invoked for that key.
C2_CacheShortCircuit ==
    /\ (last.op = "train" /\ CacheHolds("train")) =>
          (last.source = "cache" /\ "train" \notin Range(last.compute_calls))
    /\ (last.op = "evaluate" /\ CacheHolds("test")) =>
          (last.source = "cache" /\ "test" \notin Range(last.compute_calls))

\* C3: once generate_features('train') has computed a pair (M, y) to store,
\* a train() that follows reads exactly (M, y) from the cache.
C3_CacheRoundTrip ==
    (last.op = "train" /\ generated["train"] # <<>>) =>
        (last.source = "cache" /\ last.pair = generated["train"])

\* The feature file of a key never exists without its label file.
PairsComplete(dir) ==
    \A split \in Splits :
        FeatureFile(split) \in DOMAIN dir => LabelFile(split) \in DOMAIN dir

\* C4: a generate_features whose shard loop did not get through all shards
\* (an encoder call failed) ends with an error, returns no matrix, partial or
\* not, and leaves the data directory as it was; and no step of the program
\* takes the cache from a state where every feature file has its label file
\* to one where a feature file stands alone.
C4_FailedExtractionWritesNothing ==
    [][/\ (last'.op = "generate_features" /\ last'.shards_done < SHARDS) =>
             /\ last'.error # NoError
             /\ last'.ret = <<>>
             /\ data_dir' = data_dir
       /\ PairsComplete(data_dir) => PairsComplete(data_dir')]_vars

\* C4's case: the encoder failed on a middle shard of generate_features, after
\* earlier shards had been encoded, with a cache entry present.
C4_Witness ==
    /\ last.op = "generate_features"
    /\ last.error = Raise("EncoderError", ToString(SHARDS \div 2))
    /\ last.shards_done = SHARDS \div 2
    /\ Len(LastSplit) > SHARDS
    /\ CacheHolds(last.arg)

\* The matrix of a split encoded in one piece (shard count 1).
UnshardedFeatures(model, split) ==
    Reshape(Predict(model, Batches(Shard(split, 1, 0, contiguous), BatchSize))[1])

\* C5: the matrix compute_features returns (shard count 10) is, row for row,
\* the matrix obtained with shard count 1.
C5_ShardingKeepsFeatures ==
    last.ret # <<>> => last.ret[1] = UnshardedFeatures(params["model"], LastSplit)

\* C6: the key generate_features builds for the pair it computed names the
\* encoder that computed it (the object's params['model']), the dataset and
\* the split.
C6_KeyNamesEncoder ==
    (last.op = "generate_features" /\ last.identifier # "") =>
        last.identifier =
            last.arg \o "_" \o bert_params.dataset \o "_" \o SplitLast(params["model"])

\* The save_results flag a BERTTree run is configured with: the one handed
\* to the constructor, else the one of the module's bert_params.
ConfiguredSaveResults ==
    IF "save_results" \in DOMAIN params THEN params["save_results"]
    ELSE bert_params.save_results

\* The pair train() could not obtain: the cache read or the extraction failed.
TrainPairFailed ==
    last.error.type \in {"EncoderError", "AttributeError", "EOFError",
                         "FileNotFoundError"}

\* C9: a train() that obtained its training pair calls fit on the classifiers
\* in list order, every one on that same pair; it stops at the first fit that
\* raises and otherwise fits them all.
C9_TrainFitsAllInOrder ==
    (last.op = "train" /\ ~TrainPairFailed) =>
        LET k == Len(last.fit_calls) IN
        /\ k <= Len(params["classifiers"])
        /\ last.fit_calls = SubSeq(params["classifiers"], 1, k)
        /\ IF last.error.type = "FitError"
           THEN /\ k >= 1
                /\ \A i \in 1..(k - 1) : clf_state[i] = last.pair
           ELSE /\ last.error = NoError
                /\ k = Len(params["classifiers"])
                /\ \A i \in 1..k : clf_state[i] = last.pair

\* C10: with every collaborator call succeeding, load_data() raises nothing,
\* and generate_features(split) raises nothing and leaves the pair it
\* computed in the two cache files of the split.
C10_FeatureGenerationCompletes ==
    /\ last.op = "load_data" => last.error = NoError
    /\ (last.op = "generate_features" /\ last.ret # <<>>
            /\ last.error.type # "OSError") =>
          /\ last.error = NoError
          /\ CacheHolds(last.arg)
          /\ data_dir[FeatureFile(last.arg)] = Pickled(last.ret[1])
          /\ data_dir[LabelFile(last.arg)] = Pickled(last.ret[2])

\* C8: the Evaluator is asked to write results only when the run's
\* save_results flag is set, and writes none when it is not, in
\* BERTTree.evaluate as in BERT.evaluate.
C8_SaveResultsOptIn ==
    /\ \A i \in DOMAIN last.eval_calls :
          last.eval_calls[i].save_results => ConfiguredSaveResults
    /\ results # {} => ConfiguredSaveResults
    /\ \A i \in DOMAIN cli.eval_calls :
          cli.eval_calls[i].save_results => cli.bert.save_results
    /\ cli.written # {} => cli.bert.save_results

----------------------------------------------------------------------------
(* Properties of the bert.py script, checked under SpecCli *)

IsPrefix(s, t) == Len(s) <= Len(t) /\ s = SubSeq(t, 1, Len(s))

\* The steps of a run in the order the script takes them.
ExpectedOrder(skip_training) ==
    IF skip_training
    THEN <<"load_config", "apply_overrides", "construct", "load_data", "evaluate">>
    ELSE <<"load_config", "apply_overrides", "construct", "load_data", "train",
           "evaluate">>

\* The params the model was constructed with carry the override under key
\* when the override counts as given, and what the job file says otherwise.
OverrideHonoured(key, arg, Given(_)) ==
    LET p == cli.constructed_with
        f == cli.file
    IN  IF Given(arg)
        THEN key \in DOMAIN p /\ p[key] = arg
        ELSE /\ key \in DOMAIN p <=> key \in DOMAIN f
             /\ key \in DOMAIN f => p[key] = f[key]

CliClaim(Given(_)) ==
    /\ IsPrefix(cli.steps, ExpectedOrder(cli.args.skip_training))
    /\ cli.args.skip_training => "train" \notin Range(cli.steps)
    /\ cli.pc = "done" =>
          /\ cli.steps = ExpectedOrder(cli.args.skip_training)
          /\ Len(cli.eval_calls) = 1
    /\ "construct" \in Range(cli.steps) =>
          /\ OverrideHonoured("load_checkpoint_from", cli.args.checkpoint, Given)
          /\ OverrideHonoured("dataset_id", cli.args.dataset, Given)
    /\ cli.pc \in {"constructed", "data_loaded", "trained", "done"} =>
          /\ cli.bert.load_checkpoint_from = cli.constructed_with["load_checkpoint_from"]
          /\ cli.bert.dataset_id = cli.constructed_with["dataset_id"]

====
